---------------------------- MODULE Spec2Model ----------------------------
(***************************************************************************)
(* State-machine model of the AI app generator service (src/app).          *)
(*                                                                         *)
(*   gateway       main.py  api_generate / validate_secret                 *)
(*   orchestrator  main.py  background_process                             *)
(*   generator     llm_handler.py  generate_code_with_llm                  *)
(*   publisher     github_client.py  GitHubClient.create_repo_with_files   *)
(*                                                                         *)
(* Text is modelled as a sequence of one-character strings, so that        *)
(* str.replace, str.lower and str.startswith are computed character by     *)
(* character.  The repository host is a map from (owner, name) to the      *)
(* files, the number of commits and the hosting flag of a repository.      *)
(*                                                                         *)
(* Scheduling.  background_process is a coroutine whose body up to         *)
(* `await send_callback` consists of blocking calls only, so a run holds   *)
(* the event loop from its first statement until it awaits or ends; the    *)
(* variable `loop` is the run holding the loop (0: the loop is free).      *)
(* The state of the repository host is visible between any two calls.      *)
(***************************************************************************)
EXTENDS Integers, Sequences, FiniteSets, TLC

\* ----------------------------------------------------------------- bounds
\* Number of POST /api/generate requests the model lets arrive.
MaxRequests == 2

\* ------------------------------------------------------ program constants
\* stop_after_attempt(3) of the publisher stages and of the generator calls.
MaxAttempts == 3
\* wait_exponential(multiplier=1, min=2, max=8) of the publisher stages and
\* of the generator calls; tenacity's default exp_base is 2.
WaitMultiplier == 1
WaitMin == 2
WaitMax == 8
ExpBase == 2
\* stop_after_attempt(5) of send_callback.
CallbackAttempts == 5
\* `if e.status == 404` of get_or_create_repo and upload_file.
NotFound == 404
\* HTTPException(status_code=401, ...) and JSONResponse(status_code=200, ...).
Unauthorized == 401
Accepted == 200

\* ------------------------------------------------------------------- text
None == "None"

Str_student_repo == <<"s","t","u","d","e","n","t","-","r","e","p","o","-">>

\* str.replace(old, new) for one-character old and new.
Replace(s, old, new) == [i \in 1..Len(s) |-> IF s[i] = old THEN new ELSE s[i]]

UpperLetters == <<"A","B","C","D","E","F","G","H","I","J","K","L","M",
                  "N","O","P","Q","R","S","T","U","V","W","X","Y","Z">>
LowerLetters == <<"a","b","c","d","e","f","g","h","i","j","k","l","m",
                  "n","o","p","q","r","s","t","u","v","w","x","y","z">>

LowerChar(c) ==
    IF \E i \in 1..Len(UpperLetters) : UpperLetters[i] = c
    THEN LowerLetters[CHOOSE i \in 1..Len(UpperLetters) : UpperLetters[i] = c]
    ELSE c

\* str.lower()
Lower(s) == [i \in 1..Len(s) |-> LowerChar(s[i])]

\* str.startswith(prefix)
StartsWith(s, prefix) ==
    /\ Len(s) >= Len(prefix)
    /\ \A i \in 1..Len(prefix) : s[i] = prefix[i]

Spaces(n) == [i \in 1..n |-> " "]

\* The two document-start markers of main.py line 75.
MarkerDoctype == <<"<","!","d","o","c","t","y","p","e"," ","h","t","m","l">>
MarkerHtml == <<"<","h","t","m","l">>

\* code.lower().startswith(("<!doctype html", "<html"))
BeginsWithMarker(s) ==
    \/ StartsWith(Lower(s), MarkerDoctype)
    \/ StartsWith(Lower(s), MarkerHtml)

\* The f-string of main.py lines 76-85: the text before {code} ...
WrapHead ==
    <<"\n">> \o Spaces(12) \o <<"<","!","D","O","C","T","Y","P","E"," ","h","t","m","l",">">>
    \o <<"\n">> \o Spaces(12) \o <<"<","h","t","m","l",">">>
    \o <<"\n">> \o Spaces(12) \o <<"<","h","e","a","d",">","<","t","i","t","l","e",">">>
    \o <<"G","e","n","e","r","a","t","e","d"," ","P","a","g","e">>
    \o <<"<","/","t","i","t","l","e",">","<","/","h","e","a","d",">">>
    \o <<"\n">> \o Spaces(12) \o <<"<","b","o","d","y",">">>
    \o <<"\n">> \o Spaces(16) \o <<"<","h","1",">">>
    \o <<"G","e","n","e","r","a","t","e","d"," ","O","u","t","p","u","t">>
    \o <<"<","/","h","1",">">>
    \o <<"\n">> \o Spaces(16) \o <<"<","p","r","e",">">>

\* ... and the text after it.
WrapTail ==
    <<"<","/","p","r","e",">">>
    \o <<"\n">> \o Spaces(12) \o <<"<","/","b","o","d","y",">">>
    \o <<"\n">> \o Spaces(12) \o <<"<","/","h","t","m","l",">">>
    \o <<"\n">> \o Spaces(12)

Wrap(code) == WrapHead \o code \o WrapTail

\* main.py lines 74-85: "Ensure HTML output".
EnsureHtml(code) == IF ~BeginsWithMarker(code) THEN Wrap(code) ELSE code

\* ------------------------------------------------------------ input sets
\* Task ids: a plain one, one with a space, and the one the latter is
\* sanitized to.
Tasks == { <<"t">>, <<"a"," ","b">>, <<"a","-","b">> }
Rounds == {1, 2, 3}
Secrets == {"s3cret", "wrong"}

\* Texts the generation backends may return: a document with an upper-case
\* declaration, and plain text.
GenOutputs ==
    { <<"<","!","D","O","C","T","Y","P","E"," ","H","T","M","L",">">>,
      <<"H","i">> }

\* Statuses of a GithubException other than not-found: permission denied and
\* a backend fault.
ErrStatuses == {403, 500}

\* The account the token authenticates (self.user.login).
Login == "alice"

\* Names bound in the module namespace of main.py (lines 1-16, 18, 27 and its
\* def statements).  A name used in background_process resolves only if it
\* is one of these or a local of the function.
MainNames ==
    { "os", "logging", "httpx", "uuid", "FastAPI", "BackgroundTasks",
      "HTTPException", "CORSMiddleware", "JSONResponse", "retry",
      "stop_after_attempt", "wait_exponential", "retry_if_exception_type",
      "TaskRequest", "GitHubClient", "save_attachments",
      "generate_code_with_llm", "setup_logging", "log_request", "logger",
      "app", "SECRET", "validate_secret", "send_callback",
      "background_process", "api_generate", "root" }

\* Names visible in the body of create_repo_with_files: the module namespace
\* of github_client.py (lines 1-10) and the function's parameters and locals.
\* GITHUB_TOKEN and BASE_REPO_OWNER are locals of __init__ (lines 13-14) and
\* are not among them.
PublisherNames ==
    { "os", "logging", "load_dotenv", "Github", "GithubException", "retry",
      "stop_after_attempt", "wait_exponential", "retry_if_exception_type",
      "urllib", "logger", "GitHubClient" }
    \cup
    { "self", "repo_name", "files", "private", "get_or_create_repo", "repo",
      "upload_file", "path", "content", "get_commit_sha", "commit_sha",
      "enable_pages", "repo_url", "pages_url" }

\* ------------------------------------------------------------- naming
\* main.py line 61: repo_name = f"student-repo-{task_request.task}"
RepoName(rq) == Str_student_repo \o rq.task

\* github_client.py line 34.
Sanitize(name) == Replace(Replace(Replace(name, " ", "-"), "/", "-"), "\\", "-")

RepoKey(owner, name) == [owner |-> owner, name |-> name]

\* main.py line 65: the repository a round-2 run reads index.html from.
FetchTarget(owner, rq) == RepoKey(owner, RepoName(rq))

\* github_client.py lines 34 and 46: the repository the publisher resolves.
PublishTarget(rq) == RepoKey(Login, Sanitize(RepoName(rq)))

\* files.items() of the dict built at main.py lines 88-92, in insertion order.
FileOrder == <<"index.html", "README.md", "LICENSE">>
Paths == {FileOrder[i] : i \in 1..Len(FileOrder)}

\* The requests that can arrive, and the repositories the publisher can
\* resolve for them.
Requests == [task : Tasks, round : Rounds, secret : Secrets]
Keys == {PublishTarget(rq) : rq \in Requests}

RunIds == 1..MaxRequests

\* ------------------------------------------------------------------ state
VARIABLES
    env,      \* the process environment (os.getenv), fixed at start-up
    nreq,     \* number of requests received so far
    req,      \* req[i]: the i-th TaskRequest (its nonce is i)
    resp,     \* resp[i]: the HTTP response to the i-th request
    loop,     \* the run holding the event loop, 0 when the loop is free
    run,      \* run[i]: the background_process run of request i
    repos,    \* the repository host: repos[key] for key in Keys
    lastGen   \* lastGen[t]: the run that generated the latest artifact of task t

vars == <<env, nreq, req, resp, loop, run, repos, lastGen>>

NoReq == [task |-> <<>>, round |-> 0, secret |-> ""]
NoResp == [status |-> 0, detail |-> ""]
NoRepo == RepoKey("", <<>>)
NoPrompt == [kind |-> "", existing |-> 0]
NoPayload == [repo_url |-> NoRepo, commit_sha |-> 0, pages_url |-> NoRepo]

\* Content of a file is named by the run whose repo_files it comes from;
\* 0: the path is absent.

\* A run: its position (pc), the locals of background_process and of
\* create_repo_with_files, and the error that ended it.  The fields fetch,
\* fetched, pages and calls_ok record what the calls made so far returned,
\* and posts counts the callback POSTs made.  status and wait belong to the
\* retry in progress: the status of the error that caused it and the time
\* waited before it.  escaped tells whether the error of the run left
\* background_process.
NoRun ==
    [ pc |-> "none", err |-> None, escaped |-> FALSE,
      prompt |-> NoPrompt, code |-> <<>>,
      attempt |-> 0, status |-> 0, wait |-> 0, fi |-> 0, lookup |-> "",
      target |-> NoRepo, repo |-> NoRepo, commit_sha |-> 0,
      payload |-> NoPayload,
      fetch |-> NoRepo, fetched |-> "", pages |-> "", calls_ok |-> TRUE,
      posts |-> 0 ]

EmptyRepo ==
    [ exists |-> FALSE, files |-> [p \in Paths |-> 0], commits |-> 0,
      pages |-> FALSE, createdBy |-> 0, createdAfter |-> "" ]

\* BASE_REPO_OWNER, when set, names the account of the token.
Envs ==
    [ SECRET : {None, "s3cret"},
      AIPIPE_API_KEY : {None, "k1"},
      HUGGINGFACE_API_KEY : {None, "k2"},
      GITHUB_TOKEN : {None, "tok"},
      BASE_REPO_OWNER : {None, Login} ]

Init ==
    /\ env \in Envs
    /\ nreq = 0
    /\ req = [i \in RunIds |-> NoReq]
    /\ resp = [i \in RunIds |-> NoResp]
    /\ loop = 0
    /\ run = [i \in RunIds |-> NoRun]
    /\ repos = [k \in Keys |-> EmptyRepo]
    /\ lastGen = [t \in Tasks |-> 0]

\* ---------------------------------------------------------------- gateway
\* validate_secret without the comparison: every secret is accepted.
validate_secret_Lenient(secret) == TRUE

\* main.py lines 29-33.
validate_secret(secret) ==
    IF env.SECRET = None THEN TRUE ELSE secret = env.SECRET

\* main.py lines 114-131.  The handler runs on the event loop; the run it
\* schedules starts after the response has been sent.
api_generate ==
    /\ loop = 0
    /\ nreq < MaxRequests
    /\ \E task_request \in Requests :
         LET i == nreq + 1 IN
         /\ nreq' = i
         /\ req' = [req EXCEPT ![i] = task_request]
         /\ IF ~validate_secret(task_request.secret)
            THEN /\ resp' = [resp EXCEPT ![i] =
                        [status |-> Unauthorized, detail |-> "Invalid secret"]]
                 /\ run' = run
            ELSE /\ resp' = [resp EXCEPT ![i] =
                        [status |-> Accepted, detail |-> "accepted"]]
                 /\ run' = [run EXCEPT ![i].pc = "start"]
    /\ UNCHANGED <<env, loop, repos, lastGen>>

\* ----------------------------------------------------------- orchestrator
\* A failure handler that schedules the run again instead of ending it.
OnRunFailure_Restart(rec, type) ==
    [NoRun EXCEPT !.pc = "start", !.err = type, !.escaped = TRUE,
                  !.calls_ok = rec.calls_ok,
                  !.fetch = rec.fetch, !.pages = rec.pages, !.posts = rec.posts]

\* main.py lines 110-112: what the handler around the whole run does with
\* the exception after logging it: the bare `raise` of line 112 re-raises it.
TopLevelHandler == "reraise"

\* main.py lines 110-112: the handler around the whole run logs the error
\* and re-raises it; the run is over and its locals are gone (the record
\* of its calls stays).
OnRunFailure(rec, type) ==
    [NoRun EXCEPT !.pc = "failed", !.err = type,
                  !.escaped = (TopLevelHandler = "reraise"),
                  !.calls_ok = rec.calls_ok,
                  !.fetch = rec.fetch, !.pages = rec.pages, !.posts = rec.posts]

\* tenacity wait_exponential.__call__: multiplier * exp_base^(attempt - 1),
\* kept between min and max, where attempt is the number of the attempt
\* that has just failed.
RECURSIVE Pow(_, _)
Pow(b, n) == IF n = 0 THEN 1 ELSE b * Pow(b, n - 1)
Min2(a, b) == IF a < b THEN a ELSE b
Max2(a, b) == IF a > b THEN a ELSE b
WaitExponential(attempt) ==
    Max2(Max2(0, WaitMin), Min2(WaitMultiplier * Pow(ExpBase, attempt - 1), WaitMax))

\* retry_if_exception_type(GithubException), github_client.py lines 41, 68
\* and 100: the predicate looks at the class of the exception, not at its
\* status.
Retryable(status) == TRUE

\* A retried stage (tenacity, stop_after_attempt(3), reraise=True): after a
\* failed attempt the stage starts again from its first call, and after the
\* last one the error is raised.
RetryOrRaise(rec, first, type) ==
    IF Retryable(rec.status) /\ rec.attempt < MaxAttempts
    THEN [rec EXCEPT !.pc = first, !.attempt = @ + 1,
                     !.wait = WaitExponential(rec.attempt)]
    ELSE OnRunFailure(rec, type)

\* An outbound call raised.
Faulted(rec) == [rec EXCEPT !.calls_ok = FALSE]

\* A call to the repository host raised a GithubException with this status.
FaultedWith(rec, status) == [Faulted(rec) EXCEPT !.status = status]

\* The status and the wait of a retry are gone once its stage is left.
Settle(rec) ==
    IF rec.attempt <= 1 THEN [rec EXCEPT !.status = 0, !.wait = 0] ELSE rec

\* Positions at which a run does not hold the event loop: before its first
\* statement, while it awaits send_callback, and when it is over.
Released == {"none", "start", "callback", "done", "failed"}

\* Run r moves on as rec; it keeps the loop unless rec is over or awaits.
Set(r, rec) ==
    /\ run' = [run EXCEPT ![r] = Settle(rec)]
    /\ loop' = IF rec.pc \in Released THEN 0 ELSE r

At(r, at) == loop = r /\ run[r].pc = at

\* GitHubClient.__init__, github_client.py lines 11-25: what the constructor
\* raises before it talks to the host, None if nothing.
ClientConfigError ==
    IF env.GITHUB_TOKEN = None \/ env.BASE_REPO_OWNER = None
    THEN "ValueError"
    ELSE None

\* The constructor: the configuration check, then the request for the
\* authenticated user (line 22), which the host may refuse.
NewClient(rec, ok, next) ==
    IF ClientConfigError # None THEN OnRunFailure(rec, ClientConfigError)
    ELSE IF ~ok THEN OnRunFailure(Faulted(rec), "GithubException")
    ELSE next

\* A run that hands over to the publisher at once.
Start_SkipGeneration(r) ==
    /\ loop = 0
    /\ run[r].pc = "start"
    /\ Set(r, [run[r] EXCEPT !.pc = "pub_client"])
    /\ UNCHANGED <<env, nreq, req, resp, repos, lastGen>>

\* main.py lines 47-62: the run takes the loop, builds the fresh-generation
\* prompt and the repository name.
Start(r) ==
    /\ loop = 0
    /\ run[r].pc = "start"
    /\ Set(r, [run[r] EXCEPT
                 !.prompt = [kind |-> "generate", existing |-> 0],
                 !.pc = IF req[r].round = 2 THEN "r2_client" ELSE "generate"])
    /\ UNCHANGED <<env, nreq, req, resp, repos, lastGen>>

\* main.py line 63: gh = GitHubClient(), outside the inner try.
R2Client(r) ==
    /\ At(r, "r2_client")
    /\ \E ok \in BOOLEAN :
         Set(r, NewClient(run[r], ok, [run[r] EXCEPT !.pc = "r2_get_repo"]))
    /\ UNCHANGED <<env, nreq, req, resp, repos, lastGen>>

\* main.py line 68: `except GithubException` names a class that main.py never
\* imports.  When an exception reaches the clause, evaluating the name raises
\* NameError, which leaves the inner try.
Round2Handler ==
    IF "GithubException" \in MainNames THEN "fallback" ELSE "NameError"

\* What a failed fetch of the prior index.html leads to (lines 64-69).
FetchFailed(rec, how) ==
    IF Round2Handler = "fallback"
    THEN [Faulted(rec) EXCEPT !.fetched = how, !.pc = "generate"]
    ELSE OnRunFailure(Faulted(rec), Round2Handler)

RepoExists(key) == key \in Keys /\ repos[key].exists

\* main.py line 65: gh.gh.get_repo(f"{BASE_REPO_OWNER}/{repo_name}").
R2GetRepo(r) ==
    /\ At(r, "r2_get_repo")
    /\ LET key == FetchTarget(env.BASE_REPO_OWNER, req[r])
           rec == [run[r] EXCEPT !.fetch = key] IN
       \E fault \in {0} \cup ErrStatuses :
         Set(r, IF fault # 0 THEN FetchFailed(rec, "error")
                ELSE IF ~RepoExists(key) THEN FetchFailed(rec, "notfound")
                ELSE [rec EXCEPT !.pc = "r2_get_contents"])
    /\ UNCHANGED <<env, nreq, req, resp, repos, lastGen>>

\* main.py lines 66-67: repo.get_contents("index.html") and the update prompt
\* built around the decoded content.
R2GetContents(r) ==
    /\ At(r, "r2_get_contents")
    /\ LET existing == repos[run[r].fetch].files["index.html"] IN
       \E fault \in {0} \cup ErrStatuses :
         Set(r, IF fault # 0 THEN FetchFailed(run[r], "error")
                ELSE IF existing = 0 THEN FetchFailed(run[r], "notfound")
                ELSE [run[r] EXCEPT
                        !.prompt = [kind |-> "update", existing |-> existing],
                        !.fetched = "ok", !.pc = "generate"])
    /\ UNCHANGED <<env, nreq, req, resp, repos, lastGen>>

\* -------------------------------------------------------------- generator
\* Backend choice without the final raise: with no key configured the
\* second backend is tried all the same.
FirstBackend_NoRaise(e) ==
    IF e.AIPIPE_API_KEY # None THEN "aipipe" ELSE "hf"

\* llm_handler.py lines 48-64: which backend generate_code_with_llm turns to
\* first, "raise" when it has none.
FirstBackend(e) ==
    IF e.AIPIPE_API_KEY # None THEN "aipipe"
    ELSE IF e.HUGGINGFACE_API_KEY # None THEN "hf"
    ELSE "raise"

\* llm_handler.py lines 56-64: where it goes once call_aipipe has given up.
AfterAipipe(e) ==
    IF e.HUGGINGFACE_API_KEY # None THEN "hf" ELSE "raise"

\* llm_handler.py line 64.
NoKeysError == "No LLM API keys configured"

EnterBackend(rec, backend) ==
    IF backend = "raise"
    THEN OnRunFailure(rec, NoKeysError)
    ELSE [rec EXCEPT !.pc = backend, !.attempt = 1]

\* main.py line 71: generate_code_with_llm(base_prompt) is entered.
Generate(r) ==
    /\ At(r, "generate")
    /\ Set(r, EnterBackend(run[r], FirstBackend(env)))
    /\ UNCHANGED <<env, nreq, req, resp, repos, lastGen>>

\* main.py lines 72-92: the text a backend returned is normalised and the
\* three files are composed; the artifact is now the latest of its task.
Generated(r, text) ==
    /\ Set(r, [run[r] EXCEPT !.code = EnsureHtml(text), !.pc = "pub_client",
                             !.attempt = 0])
    /\ lastGen' = [lastGen EXCEPT ![req[r].task] = r]

\* llm_handler.py lines 11-27: one attempt of call_aipipe (3 attempts, any
\* exception retried).  An attempt fails on an HTTP error or an empty answer.
CallAipipe(r) ==
    /\ At(r, "aipipe")
    /\ \/ \E text \in GenOutputs : Generated(r, text)
       \/ /\ Set(r, IF run[r].attempt < MaxAttempts
                    THEN [Faulted(run[r]) EXCEPT
                            !.attempt = @ + 1,
                            !.wait = WaitExponential(run[r].attempt)]
                    ELSE EnterBackend(Faulted(run[r]), AfterAipipe(env)))
          /\ lastGen' = lastGen
    /\ UNCHANGED <<env, nreq, req, resp, repos>>

\* llm_handler.py lines 29-46 and 62: one attempt of call_huggingface; its
\* last error leaves generate_code_with_llm.
CallHf(r) ==
    /\ At(r, "hf")
    /\ \/ \E text \in GenOutputs : Generated(r, text)
       \/ /\ Set(r, RetryOrRaise(Faulted(run[r]), "hf", "HuggingFaceError"))
          /\ lastGen' = lastGen
    /\ UNCHANGED <<env, nreq, req, resp, repos>>

\* -------------------------------------------------------------- publisher
\* main.py lines 95-96 and github_client.py lines 27-35: the client is
\* constructed, create_repo_with_files is entered and sanitizes the name.
PubClient(r) ==
    /\ At(r, "pub_client")
    /\ \E ok \in BOOLEAN :
         Set(r, NewClient(run[r], ok,
                  [run[r] EXCEPT !.target = PublishTarget(req[r]),
                                 !.pc = "get_repo", !.attempt = 1]))
    /\ UNCHANGED <<env, nreq, req, resp, repos, lastGen>>

\* A lookup handler that creates whatever the status of the error.
OnLookupError_AnyStatus(status) == "create"

\* github_client.py lines 49-60: what get_or_create_repo and upload_file do
\* with the GithubException of their lookup.
OnLookupError(status) == IF status = NotFound THEN "create" ELSE "raise"

\* The upsert phase starts with the first file.
FirstFile(rec) ==
    [rec EXCEPT !.repo = rec.target, !.pc = "get_contents", !.fi = 1,
                !.attempt = 1]

\* github_client.py lines 44-48: the lookup of get_or_create_repo.
GetRepo(r) ==
    /\ At(r, "get_repo")
    /\ \E fault \in {0} \cup ErrStatuses :
         LET status == IF fault # 0 THEN fault
                       ELSE IF RepoExists(run[r].target) THEN Accepted
                       ELSE NotFound
             failed == [FaultedWith(run[r], status) EXCEPT
                          !.lookup = IF status = NotFound THEN "notfound"
                                     ELSE "error"] IN
         Set(r, IF status = Accepted
                THEN FirstFile([run[r] EXCEPT !.lookup = "found"])
                ELSE IF OnLookupError(status) = "create"
                THEN [failed EXCEPT !.pc = "create_repo"]
                ELSE RetryOrRaise(failed, "get_repo", "GithubException"))
    /\ UNCHANGED <<env, nreq, req, resp, repos, lastGen>>

\* github_client.py lines 51-57: user.create_repo(name, auto_init=False).
\* The host refuses a name the account already has.
CreateRepo(r) ==
    /\ At(r, "create_repo")
    /\ \E fault \in {0} \cup ErrStatuses :
         IF fault # 0 \/ RepoExists(run[r].target)
         THEN /\ Set(r, RetryOrRaise(FaultedWith(run[r], fault), "get_repo",
                                     "GithubException"))
              /\ repos' = repos
         ELSE /\ repos' = [repos EXCEPT ![run[r].target] =
                             [EmptyRepo EXCEPT !.exists = TRUE, !.createdBy = r,
                                               !.createdAfter = run[r].lookup]]
              /\ Set(r, FirstFile(run[r]))
    /\ UNCHANGED <<env, nreq, req, resp, lastGen>>

\* The file the upsert phase is at.
Path(r) == FileOrder[run[r].fi]

\* A loop over the files that leaves out every second one.
NextFile_Skip(rec) ==
    IF rec.fi + 1 < Len(FileOrder)
    THEN [rec EXCEPT !.pc = "get_contents", !.fi = @ + 2, !.attempt = 1]
    ELSE [rec EXCEPT !.pc = "get_branch", !.fi = 0, !.attempt = 1]

\* github_client.py lines 93-94: after a file is written the loop moves to
\* the next one, and after the last one to the commit read.
NextFile(rec) ==
    IF rec.fi < Len(FileOrder)
    THEN [rec EXCEPT !.pc = "get_contents", !.fi = @ + 1, !.attempt = 1]
    ELSE [rec EXCEPT !.pc = "get_branch", !.fi = 0, !.attempt = 1]

\* A write that replaces the tree of the repository by the one path.
WriteFile_Truncate(r) ==
    repos' = [repos EXCEPT ![run[r].repo].files =
                               [p \in Paths |-> IF p = Path(r) THEN r ELSE 0],
                           ![run[r].repo].commits = @ + 1]

\* The host records a write: the path now holds the content run r supplied.
\* (urllib.parse.quote leaves the three paths as they are: they consist of
\* unreserved characters only.)
WriteFile(r) ==
    repos' = [repos EXCEPT ![run[r].repo].files[Path(r)] = r,
                           ![run[r].repo].commits = @ + 1]

\* github_client.py lines 74-75: repo.get_contents(path, ref="main").
GetContents(r) ==
    /\ At(r, "get_contents")
    /\ \E fault \in {0} \cup ErrStatuses :
         LET status == IF fault # 0 THEN fault
                       ELSE IF repos[run[r].repo].files[Path(r)] # 0
                            THEN Accepted ELSE NotFound IN
         Set(r, IF status = Accepted
                THEN [run[r] EXCEPT !.pc = "update_file"]
                ELSE IF OnLookupError(status) = "create"
                THEN [FaultedWith(run[r], status) EXCEPT !.pc = "get_commits"]
                ELSE RetryOrRaise(FaultedWith(run[r], status), "get_contents",
                                  "GithubException"))
    /\ UNCHANGED <<env, nreq, req, resp, repos, lastGen>>

\* github_client.py line 76: repo.update_file(path, ..., existing_file.sha).
\* A failure whose status is not 404 is re-raised (lines 78-91) and the
\* retry decorator calls upload_file again for the same path (lines 65-70).
UpdateFile(r) ==
    /\ At(r, "update_file")
    /\ \E fault \in {0} \cup ErrStatuses :
         IF fault # 0
         THEN /\ Set(r, RetryOrRaise(FaultedWith(run[r], fault), "get_contents",
                                     "GithubException"))
              /\ repos' = repos
         ELSE /\ WriteFile(r)
              /\ Set(r, NextFile(run[r]))
    /\ UNCHANGED <<env, nreq, req, resp, lastGen>>

\* github_client.py line 81: list(repo.get_commits()).
GetCommits(r) ==
    /\ At(r, "get_commits")
    /\ \E fault \in {0} \cup ErrStatuses :
         Set(r, IF fault # 0
                THEN RetryOrRaise(FaultedWith(run[r], fault), "get_contents",
                                  "GithubException")
                ELSE [run[r] EXCEPT !.pc = "create_file"])
    /\ UNCHANGED <<env, nreq, req, resp, repos, lastGen>>

\* github_client.py lines 82-84: repo.create_file(path, ..., branch="main").
CreateFile(r) ==
    /\ At(r, "create_file")
    /\ \E fault \in {0} \cup ErrStatuses :
         IF fault # 0
         THEN /\ Set(r, RetryOrRaise(FaultedWith(run[r], fault), "get_contents",
                                     "GithubException"))
              /\ repos' = repos
         ELSE /\ WriteFile(r)
              /\ Set(r, NextFile(run[r]))
    /\ UNCHANGED <<env, nreq, req, resp, lastGen>>

\* github_client.py lines 97-112: repo.get_branch("main").commit.sha.
GetBranch(r) ==
    /\ At(r, "get_branch")
    /\ \E fault \in {0} \cup ErrStatuses :
         Set(r, IF fault # 0 \/ repos[run[r].repo].commits = 0
                THEN RetryOrRaise(FaultedWith(run[r], IF fault # 0 THEN fault
                                                      ELSE NotFound),
                                  "get_branch", "GithubException")
                ELSE [run[r] EXCEPT !.commit_sha = repos[run[r].repo].commits,
                                    !.pc = "enable_pages", !.attempt = 1])
    /\ UNCHANGED <<env, nreq, req, resp, repos, lastGen>>

\* github_client.py lines 129-130: enable_pages catches the GithubException
\* of the hosting request and logs a warning.
OnPagesError == "warn"

\* github_client.py lines 114-132.
EnablePages(r) ==
    /\ At(r, "enable_pages")
    /\ \E fault \in {0} \cup ErrStatuses :
         IF fault # 0
         THEN /\ repos' = repos
              /\ Set(r, IF OnPagesError = "warn"
                        THEN [Faulted(run[r]) EXCEPT !.pages = "failed",
                                                     !.pc = "return", !.attempt = 0]
                        ELSE RetryOrRaise(Faulted(run[r]), "enable_pages",
                                          "GithubException"))
         ELSE /\ repos' = [repos EXCEPT ![run[r].repo].pages = TRUE]
              /\ Set(r, [run[r] EXCEPT !.pages = "enabled", !.pc = "return",
                                       !.attempt = 0])
    /\ UNCHANGED <<env, nreq, req, resp, lastGen>>

\* github_client.py line 135 reads BASE_REPO_OWNER, which is a local of
\* __init__ and no name of create_repo_with_files: the read raises NameError.
PagesUrlError ==
    IF "BASE_REPO_OWNER" \in PublisherNames THEN None ELSE "NameError"

\* github_client.py lines 134-142 and main.py lines 97-109: the result is
\* composed and returned, the payload is built and send_callback is awaited.
ReturnResult(r) ==
    /\ At(r, "return")
    /\ Set(r, IF PagesUrlError # None
              THEN OnRunFailure(run[r], PagesUrlError)
              ELSE [run[r] EXCEPT
                      !.payload = [ repo_url |-> run[r].repo,
                                    commit_sha |-> run[r].commit_sha,
                                    pages_url |-> RepoKey(env.BASE_REPO_OWNER,
                                                          run[r].repo.name) ],
                      !.pc = "callback", !.attempt = 1])
    /\ UNCHANGED <<env, nreq, req, resp, repos, lastGen>>

\* ------------------------------------------------------- callback delivery
\* A delivery that posts again after every failure, whatever the attempt.
SendCallback_Relentless(r) ==
    /\ loop = 0
    /\ run[r].pc = "callback"
    /\ \E ok \in BOOLEAN :
         LET posted == [run[r] EXCEPT !.posts = @ + 1] IN
         Set(r, IF ok THEN [posted EXCEPT !.pc = "done"]
                ELSE [Faulted(posted) EXCEPT !.attempt = @ + 1])
    /\ UNCHANGED <<env, nreq, req, resp, repos, lastGen>>

\* main.py lines 35-45: one POST of send_callback (5 attempts, retried on
\* httpx.HTTPError, the last error re-raised into background_process).
SendCallback(r) ==
    /\ loop = 0
    /\ run[r].pc = "callback"
    /\ \E ok \in BOOLEAN :
         LET posted == [run[r] EXCEPT !.posts = @ + 1] IN
         Set(r, IF ok THEN [posted EXCEPT !.pc = "done"]
                ELSE IF posted.attempt < CallbackAttempts
                THEN [Faulted(posted) EXCEPT !.attempt = @ + 1]
                ELSE OnRunFailure(Faulted(posted), "HTTPError"))
    /\ UNCHANGED <<env, nreq, req, resp, repos, lastGen>>

\* ---------------------------------------------------------- specification
\* The steps of a run.  SendCallback is not among them: no run reaches
\* position "callback", because ReturnResult always raises (PagesUrlError).
RunNext(r) ==
    \/ Start(r)
    \/ R2Client(r)
    \/ R2GetRepo(r)
    \/ R2GetContents(r)
    \/ Generate(r)
    \/ CallAipipe(r)
    \/ CallHf(r)
    \/ PubClient(r)
    \/ GetRepo(r)
    \/ CreateRepo(r)
    \/ GetContents(r)
    \/ UpdateFile(r)
    \/ GetCommits(r)
    \/ CreateFile(r)
    \/ GetBranch(r)
    \/ EnablePages(r)
    \/ ReturnResult(r)

Next == api_generate \/ \E r \in RunIds : RunNext(r)

Spec == Init /\ [][Next]_vars

\* ------------------------------------------- callback delivery on its own
\* send_callback as background_process calls it at main.py line 109: the
\* run has the result of the publisher in hand, has built the payload
\* (lines 100-108) and awaits the delivery.
AwaitingCallback(rq, sha) ==
    [NoRun EXCEPT !.pc = "callback", !.attempt = 1,
                  !.prompt = [kind |-> "generate", existing |-> 0],
                  !.target = PublishTarget(rq), !.repo = PublishTarget(rq),
                  !.commit_sha = sha, !.pages = "enabled",
                  !.payload = [ repo_url |-> PublishTarget(rq),
                                commit_sha |-> sha,
                                pages_url |-> PublishTarget(rq) ]]

\* Every request was a first-round one and has been accepted, every publish
\* made one commit per file, and every run awaits its delivery.
CallbackInit ==
    /\ env \in {e \in Envs : /\ e.GITHUB_TOKEN # None
                             /\ e.BASE_REPO_OWNER # None
                             /\ FirstBackend(e) # "raise"}
    /\ nreq = MaxRequests
    /\ req \in [RunIds -> {rq \in Requests : rq.secret = "s3cret" /\ rq.round = 1}]
    /\ resp = [i \in RunIds |-> [status |-> Accepted, detail |-> "accepted"]]
    /\ loop = 0
    /\ run = [i \in RunIds |-> AwaitingCallback(req[i], Len(FileOrder))]
    /\ repos = [k \in Keys |-> EmptyRepo]
    /\ lastGen = [t \in Tasks |-> 0]

CallbackNext == \E r \in RunIds : SendCallback(r)

CallbackSpec == CallbackInit /\ [][CallbackNext]_vars

\* ================================================================= claims
\* The environment has every credential the pipeline needs.
Configured ==
    /\ env.GITHUB_TOKEN # None
    /\ env.BASE_REPO_OWNER # None
    /\ env.AIPIPE_API_KEY # None \/ env.HUGGINGFACE_API_KEY # None

\* Neither generation credential is configured.
NoProvider == env.AIPIPE_API_KEY = None /\ env.HUGGINGFACE_API_KEY = None

Over(r) == run[r].pc \in {"done", "failed"}

\* Run r has created repository k or written a file of it.
PublishedTo(r, k) ==
    /\ repos[k].exists
    /\ \/ repos[k].createdBy = r
       \/ \E p \in Paths : repos[k].files[p] = r

PublisherPcs ==
    { "get_repo", "create_repo", "get_contents", "update_file", "get_commits",
      "create_file", "get_branch", "enable_pages", "return" }

\* C1: every accepted submission whose outbound calls all succeed (no call
\* of the run raised, in a fully configured service) has POSTed the callback
\* by the time its run is over.
C1_CallbackPosted ==
    \A r \in RunIds :
        (Configured /\ Over(r) /\ run[r].calls_ok) => run[r].posts > 0

\* C2: a run whose hosting-enable request failed (so that resolve/create, the
\* upserts and the commit read had succeeded) does not end without a callback
\* POST, and the payload it sends has a repo_url and a commit_sha.
C2_CallbackAfterPagesFailure ==
    \A r \in RunIds :
        run[r].pages = "failed" =>
            /\ Over(r) => run[r].posts > 0
            /\ run[r].pc \in {"callback", "done"} =>
                   /\ run[r].payload.repo_url # NoRepo
                   /\ run[r].payload.commit_sha # 0

\* C3: the runs of one task id use one repository: a repository exists only
\* if it was created after a lookup that returned not-found, and any two runs
\* with the same task id that created, wrote or resolved a repository did so
\* with the same one.
C3_OneRepositoryPerTask ==
    /\ \A k \in Keys : repos[k].exists => repos[k].createdAfter = "notfound"
    /\ \A r1, r2 \in RunIds, k1, k2 \in Keys :
         ( /\ req[r1].task = req[r2].task
           /\ PublishedTo(r1, k1) \/ run[r1].repo = k1
           /\ PublishedTo(r2, k2) \/ run[r2].repo = k2 ) => k1 = k2

\* C3 witness: a second run of a task has resolved, by lookup, the repository
\* that the first run of the task created.
C3_Witness ==
    \E r1, r2 \in RunIds, k \in Keys :
        /\ r1 # r2
        /\ req[r1].task = req[r2].task
        /\ repos[k].createdBy = r1
        /\ run[r2].repo = k
        /\ run[r2].lookup = "found"

\* C4: the index.html content handed to the publisher begins, compared
\* case-insensitively, with <!doctype html or <html.
C4_ArtifactBeginsWithMarker ==
    \A r \in RunIds : run[r].target # NoRepo => BeginsWithMarker(run[r].code)

\* C5: with neither generation credential configured, generate fails with the
\* no-provider error, and no run ever has generated code, enters the
\* publisher or POSTs the callback.
C5_NoProviderNoPublish ==
    /\ [](NoProvider =>
            \A r \in RunIds :
                /\ run[r].code = <<>>
                /\ run[r].target = NoRepo
                /\ run[r].pc \notin PublisherPcs \cup {"aipipe", "hf", "pub_client",
                                                      "callback", "done"}
                /\ run[r].posts = 0)
    /\ [][NoProvider =>
            \A r \in RunIds :
                (run[r].pc = "generate" /\ run'[r] # run[r]) =>
                    /\ run'[r].pc = "failed"
                    /\ run'[r].err = NoKeysError]_vars

\* C5 witness: a run has entered generate without credentials and failed.
C5_Witness ==
    /\ NoProvider
    /\ \E r \in RunIds : run[r].pc = "failed" /\ run[r].err = NoKeysError

\* C6: a request whose secret does not match the configured one is answered
\* 401 "Invalid secret" and no run is scheduled for it.
C6_BadSecretRejected ==
    \A i \in 1..nreq :
        (env.SECRET # None /\ req[i].secret # env.SECRET) =>
            /\ resp[i] = [status |-> Unauthorized, detail |-> "Invalid secret"]
            /\ run[i] = NoRun

\* C6 witness: a request with a wrong secret has been answered.
C6_Witness ==
    \E i \in 1..nreq :
        /\ env.SECRET # None
        /\ req[i].secret # env.SECRET
        /\ resp[i].status = Unauthorized

\* C7: the repository a round-2 run fetches index.html from is the
\* repository the publisher uses for the same task id, within the run and
\* across the runs of the task.
C7_FetchFromPublishedRepository ==
    /\ \A r \in RunIds :
         (run[r].fetch # NoRepo /\ run[r].target # NoRepo) =>
             run[r].fetch = run[r].target
    /\ \A r1, r2 \in RunIds, k \in Keys :
         ( /\ req[r1].task = req[r2].task
           /\ PublishedTo(r1, k)
           /\ run[r2].fetch # NoRepo ) => run[r2].fetch = k

\* C8: a step of the prior-content fetch never ends the run: the run moves on
\* to the next fetch call or to generation, and when the fetch failed it
\* generates from the fresh-generation prompt.
C8_FetchFailureFallsBack ==
    [][\A r \in RunIds :
          run[r].pc \in {"r2_get_repo", "r2_get_contents"} =>
              /\ run'[r].pc \in {"r2_get_repo", "r2_get_contents", "generate"}
              /\ (run'[r].pc = "generate" /\ run'[r].fetched # "ok") =>
                     run'[r].prompt.kind = "generate"]_vars

\* C9: a run that ended in an error before callback delivery is over, has
\* made no callback POST, and never moves again.
C9_FailureIsFinal ==
    /\ [](\A r \in RunIds :
            (run[r].err # None /\ run[r].err # "HTTPError") =>
                /\ run[r].pc = "failed"
                /\ run[r].posts = 0)
    /\ [][\A r \in RunIds : run[r].pc = "failed" => run'[r] = run[r]]_vars

\* C9 witness: a run has failed in the publisher after its retries.
C9_Witness ==
    \E r \in RunIds :
        /\ run[r].pc = "failed"
        /\ run[r].err = "GithubException"
        /\ lastGen[req[r].task] = r

\* C10: in every state of the host, a repository that has index.html has
\* README.md and LICENSE too, and its index.html is the artifact generated
\* last for the task of the run that wrote it.
C10_RepositoryComplete ==
    \A k \in Keys :
        LET w == repos[k].files["index.html"] IN
        w # 0 =>
            /\ repos[k].files["README.md"] # 0
            /\ repos[k].files["LICENSE"] # 0
            /\ lastGen[req[w].task] = w

\* C11: generate turns to a backend only if that backend has credentials;
\* it fails with the no-provider error only when neither backend has
\* credentials, and with the error of the generation call when the
\* configured backends failed.
C11_GeneratorFallback ==
    \A r \in RunIds :
        /\ run[r].pc = "aipipe" => env.AIPIPE_API_KEY # None
        /\ run[r].pc = "hf" => env.HUGGINGFACE_API_KEY # None
        /\ run[r].err = "HuggingFaceError" => env.HUGGINGFACE_API_KEY # None
        /\ run[r].err = NoKeysError => NoProvider

\* C12: the error of a failed run has not left background_process (it was
\* caught at the top level of the run and went no further), and a failed
\* run does not hold the event loop, so other runs can go on.
C12_FaultContained ==
    \A r \in RunIds :
        run[r].pc = "failed" =>
            /\ ~run[r].escaped
            /\ loop # r

\* A definitive client-error status other than not-found.
Definitive4xx(status) == status >= 400 /\ status < 500 /\ status # NotFound

\* C13: a publisher stage is never on a second or third attempt because of
\* a call that failed with a definitive 4xx status other than 404.
C13_DefinitiveErrorNotRetried ==
    \A r \in RunIds :
        (run[r].pc \in PublisherPcs /\ run[r].attempt > 1) =>
            ~Definitive4xx(run[r].status)

\* C14: a publisher stage makes at most 3 attempts, and it has waited 2
\* time-units when it is on its second attempt and 4 when it is on its third.
C14_RetrySchedule ==
    \A r \in RunIds :
        run[r].pc \in PublisherPcs =>
            /\ run[r].attempt <= 3
            /\ run[r].attempt = 2 => run[r].wait = 2
            /\ run[r].attempt = 3 => run[r].wait = 4

\* The upsert phase of run r has completed without error.
UpsertsDone(r) == run[r].pc \in {"get_branch", "enable_pages", "return"}

\* C15: once the upsert phase of a run has completed, every path of its
\* files holds the content the run supplied, whatever it held before; and a
\* path is written only by the run that is at that path, after the paths
\* that precede it in the supplied order have been written.
C15_UpsertPostcondition ==
    /\ [](\A r \in RunIds :
            UpsertsDone(r) =>
                \A p \in Paths : repos[run[r].repo].files[p] = r)
    /\ [][\A k \in Keys, i \in 1..Len(FileOrder) :
            repos'[k].files[FileOrder[i]] # repos[k].files[FileOrder[i]] =>
                \E r \in RunIds :
                    /\ loop = r
                    /\ run[r].repo = k
                    /\ run[r].fi = i
                    /\ repos'[k].files[FileOrder[i]] = r
                    /\ \A j \in 1..(i - 1) : repos[k].files[FileOrder[j]] = r]_vars

\* C15 witness: a run has completed its upserts over the files that an
\* earlier run had written to the repository.
C15_Witness ==
    \E r \in RunIds :
        /\ UpsertsDone(r)
        /\ run[r].lookup = "found"
        /\ repos[run[r].repo].createdBy \notin {0, r}
        /\ \A p \in Paths : repos[run[r].repo].files[p] = r

\* C16: a run makes at most 5 callback POSTs; a POST is made only by a run
\* that awaits the delivery, one at a time, and after the first one only
\* when the one before failed; a run whose POST got a 2xx answer never moves
\* again.
C16_CallbackAttempts ==
    /\ [](\A r \in RunIds : run[r].posts <= CallbackAttempts)
    /\ [][\A r \in RunIds :
            run'[r].posts # run[r].posts =>
                /\ run'[r].posts = run[r].posts + 1
                /\ run[r].pc = "callback"
                /\ run[r].posts > 0 => ~run[r].calls_ok]_vars
    /\ [][\A r \in RunIds : run[r].pc = "done" => run'[r] = run[r]]_vars

\* C16 witness: a delivery succeeded on its fifth POST while another gave
\* up after five.
C16_Witness ==
    \E r1, r2 \in RunIds :
        /\ run[r1].pc = "done"
        /\ run[r1].posts = CallbackAttempts
        /\ run[r2].pc = "failed"
        /\ run[r2].err = "HTTPError"
        /\ run[r2].posts = CallbackAttempts

\* C17: runs of different task ids use different repositories: no
\* repository is created or written by runs of two different task ids.
C17_DistinctTasksDistinctRepositories ==
    \A r1, r2 \in RunIds, k \in Keys :
        (PublishedTo(r1, k) /\ PublishedTo(r2, k)) =>
            req[r1].task = req[r2].task

\* The step of background_process a position belongs to: 1 the prompt,
\* 2 generation, 3 publish, 4 callback delivery.
Stage(pc) ==
    IF pc \in {"start", "r2_client", "r2_get_repo", "r2_get_contents"} THEN 1
    ELSE IF pc \in {"generate", "aipipe", "hf"} THEN 2
    ELSE IF pc \in PublisherPcs \cup {"pub_client"} THEN 3
    ELSE IF pc \in {"callback", "done"} THEN 4
    ELSE 0

\* C18: a run is in generation only with its prompt built, in the publisher
\* only with generated code, and at the return of the publisher or beyond
\* (where the callback is posted) only when its three files are upserted and
\* its commit identifier is read; and a run moves from a step to the same
\* step or to the next one, never back and never past one.
C18_StepsSequential ==
    /\ [](\A r \in RunIds :
            /\ Stage(run[r].pc) >= 2 => run[r].prompt # NoPrompt
            /\ Stage(run[r].pc) >= 3 => run[r].code # <<>>
            /\ (run[r].pc \in {"return", "callback", "done"} \/ run[r].posts > 0) =>
                   /\ \A p \in Paths : repos[run[r].repo].files[p] = r
                   /\ run[r].commit_sha # 0)
    /\ [][\A r \in RunIds :
            (run'[r].pc # run[r].pc /\ run'[r].pc # "failed") =>
                Stage(run'[r].pc) \in {Stage(run[r].pc), Stage(run[r].pc) + 1}]_vars

\* C18 witness: a revision run has gone through the fetch, generation and
\* the whole publish and is at the return of the publisher.
C18_Witness ==
    \E r \in RunIds :
        /\ run[r].pc = "return"
        /\ run[r].prompt.kind = "update"
        /\ run[r].code # <<>>
        /\ run[r].commit_sha # 0

\* C19: when generation is entered for a submission of round 2 or more whose
\* repository holds an index.html, the prompt is the update prompt built
\* around that content; for round 1 it is the fresh-generation prompt.
C19_RevisionPromptHasExisting ==
    \A r \in RunIds :
        run[r].pc = "generate" =>
            LET existing == repos[PublishTarget(req[r])].files["index.html"] IN
            /\ (req[r].round >= 2 /\ existing # 0) =>
                   run[r].prompt = [kind |-> "update", existing |-> existing]
            /\ req[r].round = 1 =>
                   run[r].prompt = [kind |-> "generate", existing |-> 0]

=============================================================================
